---- MODULE Spec2Model ----
(***************************************************************************)
(* HexSnake (src/src/App.tsx): a snake on a two-faced hexagonal board in   *)
(* axial coordinates.  One of three pairs of opposite edges is the wrap    *)
(* exit of the whole run; stepping off the board through it moves the head *)
(* to the mirrored cell on the other face, any other edge is a wall.       *)
(*                                                                         *)
(* The module models the React state object (gameState), the module-level  *)
(* FIXED_WRAP_PAIR_INDEX, the pending eat-effect timeout and the updates   *)
(* handed to setGameState.  There is one action per handler: the interval  *)
(* callback, handleKeyDown, startGame, restartGame and the timeout         *)
(* callback, which queue an update, and one per update React applies when  *)
(* it renders: Tick (the updater of the interval callback), turn (the      *)
(* updater of a key), clearEffect and the session object of a click.       *)
(* Math.random() is an input drawn from the finite set Draws; key events   *)
(* and interval updates are bounded per session by the budget of the run.  *)
(* Spec starts every run at the state the component is constructed in;     *)
(* SpecLate starts it there or at one of three states late in a game,      *)
(* which are given by the play that leads to them.                         *)
(***************************************************************************)
EXTENDS Integers, Sequences, FiniteSets

VARIABLES
  axis,          \* FIXED_WRAP_PAIR_INDEX: 0 horizontal, 1 diagonal1, 2 diagonal2
  budget,        \* bound: the key events and the interval updates a session
                 \* of this run takes, and the longest snake it grows
  snake,         \* gameState.snake, head first
  food,          \* gameState.food
  direction,     \* gameState.direction, 0..5
  currentSide,   \* gameState.currentSide
  score,         \* gameState.score
  gameOver,      \* gameState.gameOver
  isPlaying,     \* gameState.isPlaying
  eatEffect,     \* gameState.eatEffect (NoEffect stands for null)
  wrapImmunity,  \* gameState.wrapImmunity
  timeouts,      \* pending setTimeout callbacks: "held" is the one effectTimeoutRef
                 \* refers to, "earlier" one it no longer refers to
  queue,         \* updates handed to setGameState and not yet applied by a render
  rendering,     \* TRUE while React is part-way through the queued updates
  rendered,      \* gameState.isPlaying and gameState.gameOver of the last render:
                 \* the buttons, the keydown listener's closure and the
                 \* interval are those of that render
  tickDir,       \* history: direction right after the last tick or session start
  pressed,       \* history: rotations (+1 / +5) accepted since the last tick
  keyCount,      \* history: key updates applied since the session, or the
                 \* run, began (bounded)
  tickCount,     \* history: interval updates applied since the session, or
                 \* the run, began (bounded)
  call,          \* function probe: the pending call and its arguments
  ret            \* function probe: the value the call returned

gameVars == <<snake, food, direction, currentSide, score, gameOver, isPlaying,
              eatEffect, wrapImmunity>>
histVars == <<tickDir, pressed, keyCount, tickCount>>
probeVars == <<call, ret>>
vars == <<axis, budget, snake, food, direction, currentSide, score, gameOver, isPlaying,
          eatEffect, wrapImmunity, timeouts, queue, rendering, rendered,
          tickDir, pressed, keyCount,
          tickCount, call, ret>>

(***************************************************************************)
(* Constants of the program                                                *)
(***************************************************************************)
GRID_RADIUS == 15

HEX_SIZE == 10

RIGHT == 0

\* targetSide left out of a generateFood call
Undefined == -1

\* DIRECTION_VECTORS[d] of the source is DIRECTION_VECTORS[d + 1] here
DIRECTION_VECTORS ==
  << [q |-> 1,  r |-> 0],
     [q |-> 0,  r |-> 1],
     [q |-> -1, r |-> 1],
     [q |-> -1, r |-> 0],
     [q |-> 0,  r |-> -1],
     [q |-> 1,  r |-> -1] >>

WRAP_EDGE_PAIR_NAMES == << "horizontal", "diagonal1", "diagonal2" >>

horizontalFlip == << 3, 2, 1, 0, 5, 4 >>

diagonal1Flip == << 0, 5, 4, 3, 2, 1 >>

diagonal2Flip == << 4, 3, 2, 1, 0, 5 >>

(***************************************************************************)
(* Bounds of the model                                                     *)
(***************************************************************************)
\* a long session: key events accepted, interval updates applied
MaxKeys == 3

MaxTicks == 17

\* a short session with one more turn
MaxTurnKeys == 4

MaxTurnTicks == 3

\* the snake of a run from construction does not grow beyond this length
MaxLen == 4

\* the snake of a run from a late state does not grow beyond this length
MaxLateLen == 1442

\* updates queued between two renders
MaxQueue == 2

\* cells probed for membership of the board lie up to this far outside it
ProbeMargin == 2

\* the sessions of a run from construction
Budgets ==
  { [keys |-> MaxKeys, ticks |-> MaxTicks, len |-> MaxLen],
    [keys |-> MaxTurnKeys, ticks |-> MaxTurnTicks, len |-> MaxLen] }

\* the sessions of a run from a late state
lateBudget == [keys |-> MaxTurnKeys, ticks |-> MaxTurnTicks, len |-> MaxLateLen]

\* values Math.random() takes in the game, as fractions
\* <<numerator, denominator>> in [0, 1)
Draws == { <<1, 1000>>, <<1, 2>>, <<9999, 10000>> }

\* values Math.random() takes in the probes of generateFood
ProbeDraws == Draws \cup { <<0, 1>>, <<1, 4>> }

Keys == { "ArrowLeft", "ArrowRight" }

\* the timeout effectTimeoutRef refers to has not fired and is not cancelled
timerPending == "held" \in timeouts

(***************************************************************************)
(* Geometry                                                                *)
(***************************************************************************)
Abs(x) == IF x < 0 THEN -x ELSE x

Max(a, b) == IF a >= b THEN a ELSE b

Min(a, b) == IF a <= b THEN a ELSE b

isValidPosition(coord) ==
  /\ Abs(coord.q) <= GRID_RADIUS
  /\ Abs(coord.r) <= GRID_RADIUS
  /\ Abs(coord.q + coord.r) <= GRID_RADIUS

\* WRAP_EDGE_PAIRS[idx].checks.some(check => check(coord))
wrapEdgeCheck(idx, c) ==
  CASE idx = 0 -> c.q = -GRID_RADIUS \/ c.q = GRID_RADIUS
    [] idx = 1 -> c.r = GRID_RADIUS \/ c.r = -GRID_RADIUS
    [] idx = 2 -> -c.q - c.r = GRID_RADIUS \/ -c.q - c.r = -GRID_RADIUS

isWrapExit(coord) == wrapEdgeCheck(axis, coord)

\* x = HEX_SIZE * (3/2 * q) is kept doubled (x2 = 2 * x), and
\* y = HEX_SIZE * (sqrt(3)/2 * q + sqrt(3) * r) as its multiple of sqrt(3)/2
\* (yHalfSqrt3 = 2 * y / sqrt(3)), so both stay integers
hexToPixel(q, r) == [x2 |-> HEX_SIZE * 3 * q, yHalfSqrt3 |-> HEX_SIZE * (q + 2 * r)]

\* variant of columnCells: the column is not clipped by the q + r bound
columnCellsUnclipped(q) ==
  LET r1 == -GRID_RADIUS
      r2 == GRID_RADIUS
  IN  [i \in 1..(r2 - r1 + 1) |-> [q |-> q, r |-> r1 + i - 1]]

columnCells(q) ==
  LET r1 == Max(-GRID_RADIUS, -q - GRID_RADIUS)
      r2 == Min(GRID_RADIUS, -q + GRID_RADIUS)
  IN  [i \in 1..(r2 - r1 + 1) |-> [q |-> q, r |-> r1 + i - 1]]

RECURSIVE cellsFromColumn(_)
cellsFromColumn(q) ==
  IF q > GRID_RADIUS THEN << >> ELSE columnCells(q) \o cellsFromColumn(q + 1)

getValidHexCells == cellsFromColumn(-GRID_RADIUS)

isSameCoord(a, b) == a.q = b.q /\ a.r = b.r

\* variant of isOnSnake: only the head segment is compared
isOnSnakeHeadOnly(coord, side, snk) ==
  Len(snk) > 0 /\ isSameCoord(snk[1], coord) /\ snk[1].side = side

isOnSnake(coord, side, snk) ==
  \E i \in DOMAIN snk : isSameCoord(snk[i], coord) /\ snk[i].side = side

getNextPosition(head, dir) ==
  LET vector == DIRECTION_VECTORS[dir + 1]
  IN  [q |-> head.q + vector.q, r |-> head.r + vector.r]

(***************************************************************************)
(* getExitInfo                                                             *)
(***************************************************************************)
\* variant of mirrorCoord: on diagonal2 the coordinates are swapped with only
\* one sign changed
mirrorCoordOneSign(coord) ==
  IF WRAP_EDGE_PAIR_NAMES[axis + 1] = "horizontal"
    THEN [q |-> -coord.q, r |-> coord.r]
  ELSE IF WRAP_EDGE_PAIR_NAMES[axis + 1] = "diagonal1"
    THEN [q |-> coord.q, r |-> -coord.r]
  ELSE [q |-> -coord.r, r |-> coord.q]

\* the axis-symmetric cell of the head (getExitInfo, lines 183-204)
mirrorCoord(coord) ==
  IF WRAP_EDGE_PAIR_NAMES[axis + 1] = "horizontal"
    THEN [q |-> -coord.q, r |-> coord.r]
  ELSE IF WRAP_EDGE_PAIR_NAMES[axis + 1] = "diagonal1"
    THEN [q |-> coord.q, r |-> -coord.r]
  ELSE [q |-> -coord.r, r |-> -coord.q]

\* one unit toward the centre when the mirrored cell is off the board
adjustToCenter(newCoord) ==
  IF ~isValidPosition(newCoord)
    THEN LET centerVector ==
               [q |-> IF newCoord.q > 0 THEN -1 ELSE (IF newCoord.q < 0 THEN 1 ELSE 0),
                r |-> IF newCoord.r > 0 THEN -1 ELSE (IF newCoord.r < 0 THEN 1 ELSE 0)]
         IN  [q |-> newCoord.q + centerVector.q, r |-> newCoord.r + centerVector.r]
    ELSE newCoord

\* isWrap FALSE carries no newCoord, as in the source
getExitInfo(coord, dir) ==
  LET next == getNextPosition(coord, dir)
  IN  IF ~isValidPosition(next)
        THEN IF isWrapExit(coord)
               THEN [isWrap |-> TRUE, newCoord |-> adjustToCenter(mirrorCoord(coord))]
               ELSE [isWrap |-> FALSE]
        ELSE [isWrap |-> FALSE]

(***************************************************************************)
(* generateFood                                                            *)
(***************************************************************************)
\* every (cell, side) in the order of the two nested loops, both sides taken
cellSides ==
  LET validCells == getValidHexCells
  IN  [i \in 1..(Len(validCells) * 2) |->
         [q |-> validCells[((i - 1) \div 2) + 1].q,
          r |-> validCells[((i - 1) \div 2) + 1].r,
          side |-> (i - 1) % 2]]

\* sidesToCheck is [targetSide] when targetSide is given, [0, 1] otherwise
sidesToCheck(targetSide, side) == IF targetSide # Undefined THEN side = targetSide ELSE TRUE

\* variant of availablePositions: occupied positions are not filtered out
availablePositionsUnfiltered(snk, targetSide) ==
  SelectSeq(cellSides, LAMBDA p : sidesToCheck(targetSide, p.side))

availablePositions(snk, targetSide) ==
  SelectSeq(cellSides,
            LAMBDA p : sidesToCheck(targetSide, p.side) /\ ~isOnSnake(p, p.side, snk))

\* Math.floor(u * n) for u = draw[1] / draw[2]
randomIndex(draw, n) == (draw[1] * n) \div draw[2]

generateFood(snk, targetSide, draw) ==
  LET available == availablePositions(snk, targetSide)
  IN  IF Len(available) = 0
        THEN [q |-> 0, r |-> 0, side |-> 0]
        ELSE available[randomIndex(draw, Len(available)) + 1]

(***************************************************************************)
(* Session state                                                           *)
(***************************************************************************)
NoEffect == [active |-> FALSE]

NoCall == [op |-> "none"]

NoResult == [op |-> "none"]

initialSnake ==
  << [q |-> 0, r |-> 0, side |-> 0],
     [q |-> -1, r |-> 0, side |-> 0],
     [q |-> -2, r |-> 0, side |-> 0] >>

\* generateFood(initialSnake), one value per draw
initialFood == [draw \in Draws |-> generateFood(initialSnake, Undefined, draw)]

\* setGameState(update): the update is queued; React applies the queued
\* updates, in order, when it next renders
setGameState(op, arg) ==
  /\ ~rendering
  /\ Len(queue) < MaxQueue
  /\ queue' = Append(queue, [op |-> op, arg |-> arg])

queued(op) == Cardinality({ i \in DOMAIN queue : queue[i].op = op })

\* React renders: the queued updates are applied in order, and no event is
\* handled before the last of them is
applying(op) ==
  /\ queue # << >>
  /\ Head(queue).op = op
  /\ queue' = Tail(queue)
  /\ rendering' = (Tail(queue) # << >>)

\* once the last queued update is applied the new gameState is on the page,
\* and the cleanups and effects whose dependencies [isPlaying, gameOver]
\* changed are run (lines 303-455 and 458-480)
commit ==
  rendered' = IF Tail(queue) = << >>
              THEN [isPlaying |-> isPlaying', gameOver |-> gameOver']
              ELSE rendered

\* useState initialiser, lines 274-291; the wrap pair is drawn at module load
Init ==
  /\ axis \in 0..2
  /\ budget \in Budgets
  /\ snake = initialSnake
  /\ \E draw \in Draws : food = initialFood[draw]
  /\ direction = RIGHT
  /\ currentSide = 0
  /\ score = 0
  /\ gameOver = FALSE
  /\ isPlaying = FALSE
  /\ eatEffect = NoEffect
  /\ wrapImmunity = 0
  /\ timeouts = {}
  /\ rendered = [isPlaying |-> FALSE, gameOver |-> FALSE]
  /\ queue = << >>
  /\ rendering = FALSE
  /\ tickDir = RIGHT
  /\ pressed = << >>
  /\ keyCount = 0
  /\ tickCount = 0
  /\ call = NoCall
  /\ ret = NoResult

\* variant of newSession: the heading of the finished session is kept
newSessionKeepsDirection(draw) ==
  /\ snake' = initialSnake
  /\ food' = initialFood[draw]
  /\ direction' = direction
  /\ currentSide' = 0
  /\ score' = 0
  /\ gameOver' = FALSE
  /\ isPlaying' = TRUE
  /\ eatEffect' = NoEffect
  /\ wrapImmunity' = 0
  /\ tickDir' = direction
  /\ pressed' = << >>
  /\ keyCount' = 0
  /\ tickCount' = 0
  /\ UNCHANGED <<axis, budget, timeouts, call, ret>>

\* setGameState of startGame and of restartGame: the same literal
newSession(draw) ==
  /\ snake' = initialSnake
  /\ food' = initialFood[draw]
  /\ direction' = RIGHT
  /\ currentSide' = 0
  /\ score' = 0
  /\ gameOver' = FALSE
  /\ isPlaying' = TRUE
  /\ eatEffect' = NoEffect
  /\ wrapImmunity' = 0
  /\ tickDir' = RIGHT
  /\ pressed' = << >>
  /\ keyCount' = 0
  /\ tickCount' = 0
  /\ UNCHANGED <<axis, budget, timeouts, call, ret>>

\* React applies the state object of startGame or restartGame
setSession == applying("session") /\ newSession(Head(queue).arg) /\ commit

eventFrame ==
  UNCHANGED <<axis, budget, snake, food, direction, currentSide, score, gameOver,
              isPlaying, eatEffect, wrapImmunity, rendering, rendered,
              tickDir, pressed, keyCount, tickCount, call, ret>>

\* the start button is rendered while !isPlaying && !gameOver (line 752); the
\* click draws the food and hands the new state to setGameState
startGame ==
  /\ ~rendered.isPlaying /\ ~rendered.gameOver
  /\ \E draw \in Draws : setGameState("session", draw)
  /\ UNCHANGED timeouts
  /\ eventFrame

\* the restart button is rendered while gameOver (line 739)
restartGame ==
  /\ rendered.gameOver
  /\ \E draw \in Draws : setGameState("session", draw)
  /\ UNCHANGED timeouts
  /\ eventFrame

(***************************************************************************)
(* Keyboard                                                                *)
(***************************************************************************)
keyDirection(key, dir) ==
  CASE key = "ArrowLeft" -> (dir + 5) % 6
    [] key = "ArrowRight" -> (dir + 1) % 6
    [] OTHER -> dir

keyDelta(key) ==
  CASE key = "ArrowLeft" -> 5
    [] key = "ArrowRight" -> 1
    [] OTHER -> 0

\* variant of turn: the rotation is applied to the heading left by the last
\* tick, so a later key overwrites an earlier one
turnStale(key) ==
  /\ direction' = keyDirection(key, tickDir)
  /\ pressed' = Append(pressed, keyDelta(key))
  /\ keyCount' = keyCount + 1
  /\ UNCHANGED <<axis, budget, snake, food, currentSide, score, gameOver, isPlaying,
                 eatEffect, wrapImmunity, timeouts, tickDir, tickCount, call,
                 ret>>

\* the updater of lines 462-475, on the current prev.direction
turn(key) ==
  /\ direction' = keyDirection(key, direction)
  /\ pressed' = Append(pressed, keyDelta(key))
  /\ keyCount' = keyCount + 1
  /\ UNCHANGED <<axis, budget, snake, food, currentSide, score, gameOver, isPlaying,
                 eatEffect, wrapImmunity, timeouts, tickDir, tickCount, call,
                 ret>>

\* React applies the updater of a key event
applyKey == applying("key") /\ turn(Head(queue).arg) /\ commit

\* the listener: the guard of line 460 reads the gameState of the render that
\* registered it (effect of lines 458-480); the updater is handed to
\* setGameState
handleKeyDown(key) ==
  /\ ~(~rendered.isPlaying \/ rendered.gameOver)
  /\ keyCount + queued("key") < budget.keys
  /\ setGameState("key", key)
  /\ UNCHANGED timeouts
  /\ eventFrame

(***************************************************************************)
(* Game loop: the setInterval callback                                     *)
(***************************************************************************)
flipTable ==
  IF WRAP_EDGE_PAIR_NAMES[axis + 1] = "horizontal" THEN horizontalFlip
  ELSE IF WRAP_EDGE_PAIR_NAMES[axis + 1] = "diagonal1" THEN diagonal1Flip
  ELSE diagonal2Flip

\* variant of wrapDirection: the reflected heading is not turned around
wrapDirectionNotInverted(dir) == flipTable[dir + 1]

\* variant of wrapDirection: the heading is carried across the wrap as it is
wrapDirectionKept(dir) == dir

\* lines 326-345: reflect the heading, then turn it around
wrapDirection(dir) ==
  LET flippedDirection == flipTable[dir + 1]
  IN  (flippedDirection + 3) % 6

\* variant of flippedFoodCoord: the food keeps its cell across the wrap
flippedFoodCoordUnmirrored(f) == [q |-> f.q, r |-> f.r]

\* lines 373-391
flippedFoodCoord(f) ==
  IF WRAP_EDGE_PAIR_NAMES[axis + 1] = "horizontal"
    THEN [q |-> -f.q, r |-> f.r]
  ELSE IF WRAP_EDGE_PAIR_NAMES[axis + 1] = "diagonal1"
    THEN [q |-> f.q, r |-> -f.r]
  ELSE [q |-> -f.r, r |-> -f.q]

\* variant of endGame: the game-over state also drops the wrap immunity and
\* turns the display back to side 0
endGameResetsDisplay ==
  /\ gameOver' = TRUE
  /\ isPlaying' = FALSE
  /\ currentSide' = 0
  /\ wrapImmunity' = 0
  /\ direction' = RIGHT
  /\ UNCHANGED <<axis, budget, snake, food, score, eatEffect, timeouts, tickDir,
                 pressed, keyCount, call, ret>>
  /\ tickCount' = tickCount + 1

\* return { ...prev, gameOver: true, isPlaying: false }
endGame ==
  /\ gameOver' = TRUE
  /\ isPlaying' = FALSE
  /\ UNCHANGED <<axis, budget, snake, food, direction, currentSide, score, eatEffect,
                 wrapImmunity, timeouts, tickDir, pressed, keyCount, call, ret>>
  /\ tickCount' = tickCount + 1

\* line 358: [newHead, ...prev.snake]
grownSnake(newHead) == << newHead >> \o snake

\* line 410: the eating check reads the pre-tick food
eatsFood(newHead, newSide) == isSameCoord(newHead, food) /\ newSide = food.side

\* variant of newSnakeAfter: the tail is dropped on an eating tick too
newSnakeAlwaysPops(grown, eats) == SubSeq(grown, 1, Len(grown) - 1)

\* lines 432-434: newSnake.pop() unless the food was eaten
newSnakeAfter(grown, eats) == IF eats THEN grown ELSE SubSeq(grown, 1, Len(grown) - 1)

\* variant of newScoreAfter: an eaten food is worth one point
newScoreAddsOne(eats) == IF eats THEN score + 1 ELSE score

\* lines 360 and 411
newScoreAfter(eats) == IF eats THEN score + 10 ELSE score

\* variant of newWrapImmunityAfter: the immunity set by a wrap never runs out
newWrapImmunityNeverExpires(flipped) == IF flipped THEN 1 ELSE wrapImmunity

\* lines 363-368 and 404-407
newWrapImmunityAfter(flipped) ==
  IF flipped THEN 1
  ELSE IF wrapImmunity > 0 THEN wrapImmunity - 1
  ELSE wrapImmunity

\* variant of newFoodAfter: the mirrored food cell is taken without the
\* on-board test
newFoodAfterUnchecked(grown, newSide, flipped, eats) ==
  LET mirrored == flippedFoodCoord(food)
  IN  IF eats
        THEN { generateFood(grown, Undefined, draw) : draw \in Draws }
      ELSE IF flipped
        THEN { [q |-> mirrored.q, r |-> mirrored.r, side |-> newSide] }
      ELSE { food }

\* lines 359, 367-403 and 412: the food the tick can return.  An eating tick
\* overwrites whatever the wrap branch computed
newFoodAfter(grown, newSide, flipped, eats) ==
  LET mirrored == flippedFoodCoord(food)
  IN  IF eats
        THEN { generateFood(grown, Undefined, draw) : draw \in Draws }
      ELSE IF flipped
        THEN IF isValidPosition(mirrored)
               THEN { [q |-> mirrored.q, r |-> mirrored.r, side |-> newSide] }
               ELSE { generateFood(grown, newSide, draw) : draw \in Draws }
      ELSE { food }

\* lines 415-421; the timestamp is left out
newEatEffectAfter(newHead, eats) ==
  LET headPixel == hexToPixel(newHead.q, newHead.r)
  IN  IF eats
        THEN [active |-> TRUE, x2 |-> headPixel.x2, yHalfSqrt3 |-> headPixel.yHalfSqrt3]
        ELSE eatEffect

\* variant of newCurrentSideAfter: the display never turns over
newCurrentSideStays(newSide, flipped) == currentSide

\* line 362
newCurrentSideAfter(newSide, flipped) == IF flipped THEN newSide ELSE currentSide

\* lines 423-431: clearTimeout of the timeout effectTimeoutRef refers to, then
\* setTimeout, whose handle replaces it in effectTimeoutRef
timeoutsAfter(eats) ==
  IF eats
    THEN LET cleared == timeouts \ {"held"}
             superseded == { IF t = "held" THEN "earlier" ELSE t : t \in cleared }
         IN  superseded \cup {"held"}
    ELSE timeouts

\* lines 358-445: the state returned when the new head is free
advance(newHead, newSide, flipped, newDirection) ==
  LET grown == grownSnake(newHead)
      eats == eatsFood(newHead, newSide)
  IN  /\ eats => Len(snake) < budget.len
      /\ snake' = newSnakeAfter(grown, eats)
      /\ food' \in newFoodAfter(grown, newSide, flipped, eats)
      /\ score' = newScoreAfter(eats)
      /\ direction' = newDirection
      /\ currentSide' = newCurrentSideAfter(newSide, flipped)
      /\ eatEffect' = newEatEffectAfter(newHead, eats)
      /\ wrapImmunity' = newWrapImmunityAfter(flipped)
      /\ timeouts' = timeoutsAfter(eats)
      /\ tickDir' = newDirection
      /\ pressed' = << >>
      /\ tickCount' = tickCount + 1
      /\ UNCHANGED <<axis, budget, gameOver, isPlaying, keyCount, call, ret>>

\* variant of moveSnake: a colliding tick ends the game in the state that has
\* already taken the new heading and the new display side
moveSnakeTurnsFirst(newHead, newSide, flipped, newDirection) ==
  IF isOnSnake(newHead, newSide, snake)
    THEN /\ gameOver' = TRUE
         /\ isPlaying' = FALSE
         /\ direction' = newDirection
         /\ currentSide' = newCurrentSideAfter(newSide, flipped)
         /\ UNCHANGED <<axis, budget, snake, food, score, eatEffect, wrapImmunity,
                        timeouts, tickDir, pressed, keyCount, call, ret>>
         /\ tickCount' = tickCount + 1
    ELSE advance(newHead, newSide, flipped, newDirection)

\* lines 353-445, from the self-collision check to the returned state
moveSnake(newHead, newSide, flipped, newDirection) ==
  IF isOnSnake(newHead, newSide, snake)
    THEN endGame
    ELSE advance(newHead, newSide, flipped, newDirection)

\* the updater of lines 306-446, applied by React; it does not look at
\* prev.gameOver
Tick ==
  /\ applying("tick")
  /\ LET head == snake[1]
         nextCoord == getNextPosition(head, direction)
         exitInfo == getExitInfo(head, direction)
     IN  IF exitInfo.isWrap
           THEN moveSnake([q |-> exitInfo.newCoord.q, r |-> exitInfo.newCoord.r,
                           side |-> 1 - head.side],
                          1 - head.side, TRUE, wrapDirection(direction))
           ELSE IF ~isValidPosition(nextCoord)
             THEN endGame
             ELSE moveSnake([q |-> nextCoord.q, r |-> nextCoord.r, side |-> head.side],
                            head.side, FALSE, direction)
  /\ commit

\* the interval callback of line 305 hands the updater to setGameState; the
\* interval is set by the effect of a render with isPlaying && !gameOver (line
\* 304) and cleared by the cleanup of a later one (lines 450-454)
intervalCallback ==
  /\ rendered.isPlaying /\ ~rendered.gameOver
  /\ tickCount + queued("tick") < budget.ticks
  /\ setGameState("tick", "none")
  /\ UNCHANGED timeouts
  /\ eventFrame

\* the updater of line 430, s => ({ ...s, eatEffect: null }), applied by React
clearEffect ==
  /\ applying("clear")
  /\ eatEffect' = NoEffect
  /\ UNCHANGED <<axis, budget, snake, food, direction, currentSide, score, gameOver,
                 isPlaying, wrapImmunity, timeouts, tickDir, pressed, keyCount,
                 tickCount, call, ret>>
  /\ commit

\* the setTimeout callback of line 429 runs: the timeout is no longer pending
\* and its updater is handed to setGameState
effectTimeout ==
  /\ \E t \in timeouts : timeouts' = timeouts \ {t}
  /\ setGameState("clear", "none")
  /\ eventFrame

Next ==
  \/ startGame
  \/ restartGame
  \/ \E key \in Keys : handleKeyDown(key)
  \/ intervalCallback
  \/ effectTimeout
  \/ setSession
  \/ applyKey
  \/ Tick
  \/ clearEffect

Spec == Init /\ [][Next]_vars

\* the cell and side the head moves to, where the tick has one: the mirrored
\* cell on the other side when the tick wraps, the next cell on the same side
\* when that cell is on the board
hasSteppedHead ==
  \/ getExitInfo(snake[1], direction).isWrap
  \/ isValidPosition(getNextPosition(snake[1], direction))

steppedHead ==
  LET head == snake[1]
      next == getNextPosition(head, direction)
      exitInfo == getExitInfo(head, direction)
  IN  IF exitInfo.isWrap
        THEN [q |-> exitInfo.newCoord.q, r |-> exitInfo.newCoord.r, side |-> 1 - head.side]
        ELSE [q |-> next.q, r |-> next.r, side |-> head.side]

(***************************************************************************)
(* Late in a game: three states on the horizontal wrap axis, each reached  *)
(* by the play described with it                                           *)
(***************************************************************************)
reverse(seq) == [i \in 1..Len(seq) |-> seq[Len(seq) + 1 - i]]

\* column q walked downward when it is an even number of columns from q = R,
\* upward otherwise
columnWalk(q) ==
  IF (GRID_RADIUS - q) % 2 = 0 THEN reverse(columnCells(q)) ELSE columnCells(q)

RECURSIVE walkFromColumn(_)
walkFromColumn(q) ==
  IF q < -GRID_RADIUS THEN << >> ELSE columnWalk(q) \o walkFromColumn(q - 1)

\* every cell of a face once, each a neighbour of the one before: from (R,0)
\* down column R, up column R - 1, and so on to (-R,0)
faceWalk == walkFromColumn(GRID_RADIUS)

onSide(cells, side) ==
  [i \in DOMAIN cells |-> [q |-> cells[i].q, r |-> cells[i].r, side |-> side]]

\* the row r = 0 of side 0 from (R,0) back to (-R,0)
rowSnake ==
  [i \in 1..(2 * GRID_RADIUS + 1) |-> [q |-> GRID_RADIUS + 1 - i, r |-> 0, side |-> 0]]

\* the snake of a session that has not turned or eaten, its head on the edge
\* cell (R,0) after R ticks; the food drawn at session start lies on a cell
\* whose mirror image is off the board
edgeSnake == SubSeq(rowSnake, 1, 3)

edgeFood == [q |-> -7, r |-> GRID_RADIUS, side |-> 1]

\* the snake that walked side 1 from (-R,1) backward along faceWalk to (R,0),
\* wrapped to (-R,0) on side 0 and crossed side 0 along the row r = 0: of
\* side 1 only the cell (-R,0), the one the next wrap enters, is free
fullFaceSnake == rowSnake \o onSide(SubSeq(faceWalk, 1, Len(faceWalk) - 1), 1)

\* the snake that walked all of side 1 backward along faceWalk, wrapped to
\* (-R,0) on side 0 and walked side 0 backward along faceWalk up to (R,-1):
\* the one free position of the board is (R,0) on side 0, where the food is
fullBoardSnake == onSide(SubSeq(faceWalk, 2, Len(faceWalk)), 0) \o onSide(faceWalk, 1)

LateStates ==
  { [snake |-> edgeSnake, food |-> edgeFood, direction |-> RIGHT],
    [snake |-> fullFaceSnake, food |-> [q |-> -7, r |-> GRID_RADIUS, side |-> 0],
     direction |-> RIGHT],
    [snake |-> fullBoardSnake, food |-> [q |-> GRID_RADIUS, r |-> 0, side |-> 0],
     direction |-> 1] }

\* the game is in a late state, playing, the page rendered and no eat effect
\* or timeout left from the last food
InitLate ==
  \/ Init
  \/ /\ axis = 0
     /\ budget = lateBudget
     /\ \E late \in LateStates :
          /\ snake = late.snake
          /\ food = late.food
          /\ direction = late.direction
          /\ tickDir = late.direction
          /\ score = 10 * (Len(late.snake) - Len(initialSnake))
     /\ currentSide = 0
     /\ gameOver = FALSE
     /\ isPlaying = TRUE
     /\ eatEffect = NoEffect
     /\ wrapImmunity = 0
     /\ timeouts = {}
     /\ rendered = [isPlaying |-> TRUE, gameOver |-> FALSE]
     /\ queue = << >>
     /\ rendering = FALSE
     /\ pressed = << >>
     /\ keyCount = 0
     /\ tickCount = 0
     /\ call = NoCall
     /\ ret = NoResult

SpecLate == InitLate /\ [][Next]_vars

(***************************************************************************)
(* Function probes: getExitInfo, the heading reflection and generateFood   *)
(* applied to arguments drawn from bounded sets                            *)
(***************************************************************************)
boardCells == { getValidHexCells[i] : i \in DOMAIN getValidHexCells }

\* a snake lying on every cell of one face, in the order of getValidHexCells
faceSnake(side) ==
  [i \in DOMAIN getValidHexCells |->
     [q |-> getValidHexCells[i].q, r |-> getValidHexCells[i].r, side |-> side]]

\* a snake with segments on both faces, as after a wrap
wrappedSnake ==
  << [q |-> -GRID_RADIUS, r |-> 0, side |-> 1],
     [q |-> GRID_RADIUS, r |-> 0, side |-> 0],
     [q |-> GRID_RADIUS - 1, r |-> 0, side |-> 0],
     [q |-> 0, r |-> 0, side |-> 1] >>

ProbeSnakes == { initialSnake, wrappedSnake, faceSnake(0), faceSnake(1), cellSides }

ExitCalls ==
  { [op |-> "getExitInfo", coord |-> c, direction |-> d] : c \in boardCells, d \in 0..5 }

DirectionCalls == { [op |-> "wrapDirection", direction |-> d] : d \in 0..5 }

MirrorCalls == { [op |-> "mirror", coord |-> c] : c \in boardCells }

CellCalls ==
  { [op |-> "getValidHexCells", coord |-> [q |-> q, r |-> r]] :
      q \in (-GRID_RADIUS - ProbeMargin)..(GRID_RADIUS + ProbeMargin),
      r \in (-GRID_RADIUS - ProbeMargin)..(GRID_RADIUS + ProbeMargin) }

FoodCalls ==
  { [op |-> "generateFood", snake |-> s, targetSide |-> t, draw |-> u] :
      s \in ProbeSnakes, t \in {Undefined, 0, 1}, u \in ProbeDraws }

InitFn ==
  /\ axis \in 0..2
  /\ budget = [keys |-> MaxKeys, ticks |-> MaxTicks, len |-> MaxLen]
  /\ snake = initialSnake
  /\ food = initialFood[<<1, 2>>]
  /\ direction = RIGHT
  /\ currentSide = 0
  /\ score = 0
  /\ gameOver = FALSE
  /\ isPlaying = FALSE
  /\ eatEffect = NoEffect
  /\ wrapImmunity = 0
  /\ timeouts = {}
  /\ rendered = [isPlaying |-> FALSE, gameOver |-> FALSE]
  /\ queue = << >>
  /\ rendering = FALSE
  /\ tickDir = RIGHT
  /\ pressed = << >>
  /\ keyCount = 0
  /\ tickCount = 0
  /\ call \in ExitCalls \cup DirectionCalls \cup FoodCalls \cup MirrorCalls \cup CellCalls
  /\ ret = NoResult

returnValue(value) ==
  /\ ret = NoResult
  /\ ret' = [op |-> call.op, value |-> value]
  /\ UNCHANGED <<axis, budget, snake, food, direction, currentSide, score, gameOver,
                 isPlaying, eatEffect, wrapImmunity, timeouts, queue, rendered,
                 rendering, tickDir,
                 pressed, keyCount, tickCount, call>>

callGetExitInfo ==
  /\ call.op = "getExitInfo"
  /\ returnValue(getExitInfo(call.coord, call.direction))

callWrapDirection ==
  /\ call.op = "wrapDirection"
  /\ returnValue(wrapDirection(call.direction))

callGenerateFood ==
  /\ call.op = "generateFood"
  /\ returnValue(generateFood(call.snake, call.targetSide, call.draw))

\* the two copies of the mirror transform, each applied once and twice
callMirror ==
  /\ call.op = "mirror"
  /\ returnValue([head |-> mirrorCoord(call.coord),
                  headTwice |-> mirrorCoord(mirrorCoord(call.coord)),
                  food |-> flippedFoodCoord(call.coord),
                  foodTwice |-> flippedFoodCoord(flippedFoodCoord(call.coord))])

\* getValidHexCells() and isValidPosition on one cell: how often the cell
\* occurs in the list, how long the list is, and the answer of isValidPosition
callGetValidHexCells ==
  /\ call.op = "getValidHexCells"
  /\ LET cells == getValidHexCells
     IN  returnValue([occurrences |-> Cardinality({ i \in DOMAIN cells : cells[i] = call.coord }),
                      length |-> Len(cells),
                      valid |-> isValidPosition(call.coord)])

NextFn ==
  \/ callGetValidHexCells
  \/ callMirror
  \/ callGetExitInfo
  \/ callWrapDirection
  \/ callGenerateFood

SpecFn == InitFn /\ [][NextFn]_vars

(***************************************************************************)
(* Steps of the game loop, read off two successive states                  *)
(***************************************************************************)
\* the update of an interval callback was applied
tickStep == tickCount' = tickCount + 1

\* the updater returned a moved snake, not the game-over state; a moved snake
\* has a new head, the game-over state has the snake of before
movedStep == tickStep /\ snake' # snake

\* the updater took the wrap branch: the head changed face
wrappedStep == movedStep /\ snake'[1].side # snake[1].side

\* the new head is on the pre-tick food
eatingStep == movedStep /\ snake'[1] = food

(***************************************************************************)
(* C1 - getExitInfo                                                        *)
(***************************************************************************)
\* C1: for an on-board cell on the active wrap edge and a heading that steps
\* off the board, the newCoord returned by getExitInfo is an on-board cell.
C1_ExitCoordOnBoard ==
  (ret.op = "getExitInfo" /\ ret.value.isWrap /\ isValidPosition(call.coord))
    => isValidPosition(ret.value.newCoord)

(***************************************************************************)
(* C2 - heading after a wrap                                               *)
(***************************************************************************)
\* C2: after a tick that wraps and does not end the game, the cell one step
\* ahead of the new head in the new direction is on the board.
C2_ReentersInward ==
  [][wrappedStep => isValidPosition(getNextPosition(snake'[1], direction'))]_vars

(***************************************************************************)
(* C3 - food and snake                                                     *)
(***************************************************************************)
\* C3: in every reachable state the food's (cell, side) is not the (cell, side)
\* of any snake segment.
C3_FoodNotOnSnake == \A i \in DOMAIN snake : snake[i] # food

(***************************************************************************)
(* C4 - wall collision                                                     *)
(***************************************************************************)
\* C4: a tick whose next cell is off the board while the head is not on the
\* active wrap edge ends the game (gameOver, not isPlaying) and leaves snake,
\* food, direction, currentSide, score, eatEffect and wrapImmunity as they were.
C4_WallHitFrame ==
  [][(/\ tickStep
      /\ ~isValidPosition(getNextPosition(snake[1], direction))
      /\ ~isWrapExit(snake[1]))
       => (/\ gameOver' /\ ~isPlaying'
           /\ UNCHANGED <<snake, food, direction, currentSide, score, eatEffect,
                          wrapImmunity>>)]_vars

\* a game ended at a wall: the cell ahead is off the board, the head is on no
\* wrap edge, and the head has turned since the session began
C4_Witness ==
  /\ gameOver /\ ~isPlaying
  /\ ~isValidPosition(getNextPosition(snake[1], direction))
  /\ ~isWrapExit(snake[1])
  /\ isValidPosition(snake[1])
  /\ direction # RIGHT

(***************************************************************************)
(* C5 - score and length                                                   *)
(***************************************************************************)
\* C5: a non-fatal tick that eats the food adds 10 to the score and one segment
\* to the snake; any other non-fatal tick changes neither score nor length.
C5_ScoreAndLength ==
  [][movedStep =>
       IF eatingStep
         THEN score' = score + 10 /\ Len(snake') = Len(snake) + 1
         ELSE score' = score /\ Len(snake') = Len(snake)]_vars

\* the food was eaten by the tick that wrapped: the head is on the other face
\* than the segment behind it, and the eat effect sits on the head's cell
C5_Witness ==
  /\ isPlaying
  /\ score = 10 /\ Len(snake) = 4
  /\ snake[1].side # snake[2].side
  /\ wrapImmunity = 1
  /\ eatEffect.active
  /\ eatEffect.x2 = hexToPixel(snake[1].q, snake[1].r).x2
  /\ eatEffect.yHalfSqrt3 = hexToPixel(snake[1].q, snake[1].r).yHalfSqrt3

(***************************************************************************)
(* C6 - generateFood                                                       *)
(***************************************************************************)
occupied(p, snk) == \E i \in DOMAIN snk : snk[i] = p

coversBothFaces(snk) == \A i \in DOMAIN cellSides : occupied(cellSides[i], snk)

\* some position generateFood looks at is free
hasFreePosition(snk, targetSide) ==
  \E i \in DOMAIN cellSides :
    /\ targetSide = Undefined \/ cellSides[i].side = targetSide
    /\ ~occupied(cellSides[i], snk)

\* C6 as claimed: for every targetSide, when the snake does not cover every
\* cell of both faces, generateFood returns a position the snake does not occupy.
C6_FreeUnlessBoardFull ==
  (ret.op = "generateFood" /\ ~coversBothFaces(call.snake))
    => ~occupied(ret.value, call.snake)

\* C6 amended: when some position on the faces generateFood looks at
\* (targetSide alone when it is given, both faces otherwise) is free of the
\* snake, generateFood returns an on-board position the snake does not occupy.
C6_FreeWhenCandidateExists ==
  (ret.op = "generateFood" /\ hasFreePosition(call.snake, call.targetSide))
    => /\ ~occupied(ret.value, call.snake)
       /\ isValidPosition(ret.value)
       /\ call.targetSide # Undefined => ret.value.side = call.targetSide

\* food generated on the face a wrapped snake has just entered
C6_Witness ==
  /\ ret.op = "generateFood"
  /\ call.snake = wrappedSnake
  /\ call.targetSide = 1
  /\ ret.value.side = 1
  /\ ~occupied(ret.value, call.snake)

(***************************************************************************)
(* C7 - rotations between two ticks                                        *)
(***************************************************************************)
RECURSIVE sumSeq(_)
sumSeq(seq) == IF seq = << >> THEN 0 ELSE seq[1] + sumSeq(Tail(seq))

\* C7 as claimed: of the rotations accepted since the last tick only the most
\* recent one takes effect, so the heading differs from the heading after the
\* last tick by that one rotation.
C7_LastRotationWins ==
  pressed # << >> => direction = (tickDir + pressed[Len(pressed)]) % 6

\* C7 amended: every accepted rotation is applied to the heading left by the
\* one before it, so the heading the next tick reads is the heading after the
\* last tick turned by the sum of all rotations accepted since.
C7_RotationsAccumulate == direction = (tickDir + sumSeq(pressed)) % 6

\* two rotations the same way were accepted between two ticks of a running game
C7_Witness ==
  /\ isPlaying /\ ~gameOver
  /\ tickCount > 0
  /\ Len(pressed) = 2
  /\ pressed[1] = pressed[2]
  /\ direction = (tickDir + 2 * pressed[1]) % 6

(***************************************************************************)
(* C8 - the snake does not overlap itself                                  *)
(***************************************************************************)
\* C8: in every reachable state all segments of the snake are pairwise
\* distinct as (cell, side) pairs.
C8_SegmentsDistinct ==
  \A i, j \in DOMAIN snake : i # j => snake[i] # snake[j]

\* a game ended by the self-collision check: the cell ahead is on the board
\* and holds a segment of the snake on the head's face
C8_Witness ==
  /\ gameOver
  /\ isValidPosition(getNextPosition(snake[1], direction))
  /\ isOnSnake(getNextPosition(snake[1], direction), snake[1].side, snake)

(***************************************************************************)
(* C9 - game over is terminal                                              *)
(***************************************************************************)
\* C9: once gameOver holds, snake, food, direction, currentSide, score and
\* wrapImmunity change only by restartGame setting up a new session; and while
\* the game has not been started the heading does not change.
C9_OverIsTerminal ==
  [][/\ gameOver =>
          \/ UNCHANGED <<snake, food, direction, currentSide, score, wrapImmunity,
                         gameOver, isPlaying>>
          \/ (/\ ~gameOver' /\ isPlaying'
              /\ snake' = initialSnake /\ score' = 0 /\ direction' = RIGHT
              /\ currentSide' = 0 /\ wrapImmunity' = 0)
     /\ (~isPlaying /\ ~gameOver) =>
          \/ UNCHANGED <<snake, food, direction, currentSide, score, wrapImmunity,
                         gameOver, isPlaying>>
          \/ isPlaying']_vars

(***************************************************************************)
(* C10 - heading reflection tables                                         *)
(***************************************************************************)
isPermutation(table) == { table[i] : i \in DOMAIN table } = 0..5 /\ Len(table) = 6

\* C10 as claimed: every table is a permutation of 0..5 and no heading is left
\* unchanged by reflection followed by the 180 degree turn.
C10_NoFixedHeading ==
  /\ isPermutation(flipTable)
  /\ ret.op = "wrapDirection" => ret.value # call.direction

\* C10 amended: every table is a permutation of 0..5; on diagonal1 and
\* diagonal2 no heading is left unchanged by reflection followed by the 180
\* degree turn, on horizontal exactly RIGHT (0) and LEFT (3) are.
C10_FixedOnlyHorizontal ==
  /\ isPermutation(flipTable)
  /\ ret.op = "wrapDirection" =>
       (ret.value = call.direction <=> (axis = 0 /\ call.direction \in {0, 3}))

\* horizontal wrap, heading RIGHT: reflected to LEFT, turned back to RIGHT
C10_Witness ==
  /\ ret.op = "wrapDirection"
  /\ axis = 0
  /\ call.direction = RIGHT
  /\ ret.value = RIGHT

(***************************************************************************)
(* C11 - startGame and restartGame                                         *)
(***************************************************************************)
\* React applies the state object of startGame or restartGame
sessionStep == queue # << >> /\ Head(queue).op = "session" /\ queue' = Tail(queue)

\* C11: startGame and restartGame, from any prior state, produce the canonical
\* session: snake (0,0), (-1,0), (-2,0) on side 0, heading RIGHT with vector
\* (1,0), currentSide 0, score 0, wrapImmunity 0, no eat effect, not over,
\* playing, and a food on an on-board (cell, side) the snake does not occupy.
C11_CanonicalSession ==
  [][sessionStep =>
       /\ snake' = << [q |-> 0, r |-> 0, side |-> 0],
                      [q |-> -1, r |-> 0, side |-> 0],
                      [q |-> -2, r |-> 0, side |-> 0] >>
       /\ direction' = 0
       /\ DIRECTION_VECTORS[direction' + 1] = [q |-> 1, r |-> 0]
       /\ currentSide' = 0
       /\ score' = 0
       /\ wrapImmunity' = 0
       /\ eatEffect' = NoEffect
       /\ ~gameOver'
       /\ isPlaying'
       /\ isValidPosition(food')
       /\ food'.side \in {0, 1}
       /\ \A i \in DOMAIN snake' : snake'[i] # food']_vars

\* a session set up by restartGame after a session that ate: the timeout of
\* the old session is still pending, everything else is canonical
C11_Witness ==
  /\ isPlaying /\ ~gameOver
  /\ tickCount = 0 /\ keyCount = 0
  /\ timerPending
  /\ snake = initialSnake
  /\ score = 0
  /\ eatEffect = NoEffect

(***************************************************************************)
(* C12 - the mirror transform                                              *)
(***************************************************************************)
\* the transform as the claim states it
statedMirror(c) ==
  CASE axis = 0 -> [q |-> -c.q, r |-> c.r]
    [] axis = 1 -> [q |-> c.q, r |-> -c.r]
    [] axis = 2 -> [q |-> -c.r, r |-> -c.q]

\* C12: on each axis the raw mirror transform (horizontal (q,r) -> (-q,r),
\* diagonal1 (q,r) -> (q,-r), diagonal2 (q,r) -> (-r,-q)) applied twice gives
\* back the cell, for every on-board cell whose mirror image is on-board; this
\* holds of the copy in getExitInfo and of the copy that moves the food.
C12_MirrorInvolution ==
  (/\ ret.op = "mirror"
   /\ isValidPosition(call.coord)
   /\ isValidPosition(statedMirror(call.coord)))
    => /\ ret.value.head = statedMirror(call.coord)
       /\ ret.value.food = statedMirror(call.coord)
       /\ ret.value.headTwice = call.coord
       /\ ret.value.foodTwice = call.coord

\* diagonal2, a cell off the axis whose image is on the board
C12_Witness ==
  /\ ret.op = "mirror"
  /\ axis = 2
  /\ call.coord = [q |-> 3, r |-> -7]
  /\ ret.value.head = [q |-> 7, r |-> -3]
  /\ ret.value.headTwice = [q |-> 3, r |-> -7]

(***************************************************************************)
(* C13 - the snake stays on the board                                      *)
(***************************************************************************)
\* C13: in every reachable state every segment of the snake, the head in
\* particular, lies on an on-board cell.
C13_SnakeOnBoard == \A i \in DOMAIN snake : isValidPosition(snake[i])

(***************************************************************************)
(* C14 - immunity after a wrap                                             *)
(***************************************************************************)
\* the tick ended the game in the wall branch: the cell ahead is off the board
\* and the head is not on the active wrap edge
wallStep ==
  /\ tickStep
  /\ gameOver'
  /\ ~isValidPosition(getNextPosition(snake[1], direction))
  /\ ~isWrapExit(snake[1])

\* C14: a tick taken while wrapImmunity > 0, the tick right after a wrap, never
\* ends the game through the wall branch.
C14_ImmuneToWalls == [][wrapImmunity > 0 => ~wallStep]_vars

(***************************************************************************)
(* C15 - self-collision                                                    *)
(***************************************************************************)
\* C15: a tick whose new head, from a normal step or from a wrap, is a segment
\* of the pre-tick snake, the last one included, ends the game and leaves snake,
\* food, direction, currentSide, score and wrapImmunity unchanged.
C15_SelfCollisionFrame ==
  [][(/\ tickStep
      /\ hasSteppedHead
      /\ \E i \in DOMAIN snake : snake[i] = steppedHead)
       => (/\ gameOver' /\ ~isPlaying'
           /\ UNCHANGED <<snake, food, direction, currentSide, score,
                          wrapImmunity>>)]_vars

\* a game ended on the last segment: after two ticks with two turns between
\* them and two turns more, the third tick stepped onto the cell the tail was
\* about to leave
C15_Witness ==
  /\ gameOver /\ ~isPlaying
  /\ tickCount = 3
  /\ keyCount = 4
  /\ hasSteppedHead
  /\ steppedHead = snake[Len(snake)]
  /\ \A i \in 1..(Len(snake) - 1) : snake[i] # steppedHead

(***************************************************************************)
(* C16 - the head and the heading after a tick                             *)
(***************************************************************************)
\* the stated heading after a wrap: the active axis's table, then half a turn
statedWrapHeading(dir) ==
  CASE axis = 0 -> (<<3, 2, 1, 0, 5, 4>>[dir + 1] + 3) % 6
    [] axis = 1 -> (<<0, 5, 4, 3, 2, 1>>[dir + 1] + 3) % 6
    [] axis = 2 -> (<<4, 3, 2, 1, 0, 5>>[dir + 1] + 3) % 6

nextOffBoard == ~isValidPosition(getNextPosition(snake[1], direction))

\* C16: on a non-fatal tick whose next cell is off-board with the head on the
\* active wrap edge, the new head is getExitInfo's newCoord on side 1 - oldSide
\* and the new heading is (flipTable[oldDirection] + 3) mod 6; on a non-fatal
\* tick whose next cell is on-board, the new head is that cell on the same side
\* and the heading is unchanged.
C16_HeadAndHeading ==
  [][movedStep =>
       IF nextOffBoard /\ isWrapExit(snake[1])
         THEN /\ snake'[1] = [q |-> getExitInfo(snake[1], direction).newCoord.q,
                              r |-> getExitInfo(snake[1], direction).newCoord.r,
                              side |-> 1 - snake[1].side]
              /\ direction' = statedWrapHeading(direction)
         ELSE /\ ~nextOffBoard
              /\ snake'[1] = [q |-> snake[1].q + DIRECTION_VECTORS[direction + 1].q,
                              r |-> snake[1].r + DIRECTION_VECTORS[direction + 1].r,
                              side |-> snake[1].side]
              /\ direction' = direction]_vars

\* the example: on the horizontal axis the head went from (R,0) heading RIGHT to
\* (-R,0) on the other side, still heading RIGHT
C16_Witness ==
  /\ axis = 0
  /\ snake[1] = [q |-> -GRID_RADIUS, r |-> 0, side |-> 1]
  /\ snake[2] = [q |-> GRID_RADIUS, r |-> 0, side |-> 0]
  /\ direction = RIGHT
  /\ ~gameOver

(***************************************************************************)
(* C17 - the food across a wrap                                            *)
(***************************************************************************)
\* C17 as claimed: on a non-fatal wrap tick that does not eat, the food becomes
\* the mirror image of its cell on the new head's side when that image is
\* on-board, whatever side it was on, and otherwise a cell of the new head's
\* side that the snake does not occupy; on a non-wrap tick that does not eat,
\* the food is unchanged.
C17_FoodFollowsWrap ==
  [][(movedStep /\ ~eatingStep) =>
       IF wrappedStep
         THEN IF isValidPosition(statedMirror(food))
                THEN food' = [q |-> statedMirror(food).q,
                              r |-> statedMirror(food).r,
                              side |-> snake'[1].side]
                ELSE /\ food'.side = snake'[1].side
                     /\ isValidPosition(food')
                     /\ \A i \in DOMAIN snake' : snake'[i] # food'
         ELSE food' = food]_vars

\* C17 amended: as claimed, but the food whose mirror image is off-board is
\* respawned on a free cell of the new head's side only when that side has a
\* cell free of the snake with its new head, the tail not yet removed; when it
\* has none the food becomes (0,0) on side 0.
C17_FoodFollowsWrapWhenFree ==
  [][(movedStep /\ ~eatingStep) =>
       IF wrappedStep
         THEN IF isValidPosition(statedMirror(food))
                THEN food' = [q |-> statedMirror(food).q,
                              r |-> statedMirror(food).r,
                              side |-> snake'[1].side]
                ELSE IF hasFreePosition(<< snake'[1] >> \o snake, snake'[1].side)
                  THEN /\ food'.side = snake'[1].side
                       /\ isValidPosition(food')
                       /\ \A i \in DOMAIN snake' : snake'[i] # food'
                  ELSE food' = [q |-> 0, r |-> 0, side |-> 0]
         ELSE food' = food]_vars

\* right after the first wrap on the anti-diagonal axis the food drawn at (0,1)
\* on side 0 lies at its mirror image (-1,0) on the head's side 1
C17_Witness ==
  /\ axis = 2
  /\ wrapImmunity = 1
  /\ score = 0
  /\ snake[1].side = 1
  /\ snake[2].side = 0
  /\ food = [q |-> -1, r |-> 0, side |-> 1]

(***************************************************************************)
(* C18 - wrapImmunity                                                      *)
(***************************************************************************)
keyStep == keyCount' = keyCount + 1

\* C18: wrapImmunity is always 0 or 1; it is 0 at session start, 1 after every
\* non-fatal wrap tick and 0 after every non-fatal non-wrap tick; rotations and
\* fatal ticks leave it unchanged.
C18_OneShotImmunity ==
  [][/\ wrapImmunity \in {0, 1}
     /\ wrapImmunity' \in {0, 1}
     /\ (tickCount = 0 => wrapImmunity = 0)
     /\ (sessionStep => wrapImmunity' = 0)
     /\ (wrappedStep => wrapImmunity' = 1)
     /\ ((movedStep /\ ~wrappedStep) => wrapImmunity' = 0)
     /\ (keyStep => wrapImmunity' = wrapImmunity)
     /\ ((tickStep /\ ~movedStep) => wrapImmunity' = wrapImmunity)]_vars

\* the tick after a wrap has been taken: the head and the second segment are on
\* the new side, the third still on the old one, and the immunity is spent
C18_Witness ==
  /\ wrapImmunity = 0
  /\ ~gameOver
  /\ snake[1].side = snake[2].side
  /\ snake[2].side # snake[3].side

(***************************************************************************)
(* C19 - the displayed side                                                *)
(***************************************************************************)
\* C19: in every reachable state currentSide is the side of the head; it
\* changes exactly on non-fatal wrap ticks, where it becomes the new head's
\* side, and no other tick and no rotation changes it.
C19_DisplayFollowsHead ==
  [][/\ currentSide = snake[1].side
     /\ currentSide' = snake'[1].side
     /\ ((tickStep \/ keyStep) => ((currentSide' # currentSide) <=> wrappedStep))]_vars

\* playing on the far side after a wrap, the display turned over with the head
C19_Witness ==
  /\ isPlaying
  /\ currentSide = 1
  /\ snake[1].side = 1
  /\ snake[Len(snake)].side = 0

(***************************************************************************)
(* C20 - score and length                                                  *)
(***************************************************************************)
\* C20: in every reachable state score = 10 * (length of the snake - 3), so the
\* score is a non-negative multiple of 10 and the length is never below 3.
C20_ScoreIsLength ==
  /\ score = 10 * (Len(snake) - 3)
  /\ score >= 0
  /\ score % 10 = 0
  /\ Len(snake) >= 3

\* a game that ended after one food was eaten
C20_Witness ==
  /\ gameOver
  /\ score = 10
  /\ Len(snake) = 4

(***************************************************************************)
(* C21 - the eat effect and its timeout                                    *)
(***************************************************************************)
\* the timeout that clears the effect is pending, or it has run and its update
\* waits for the render
clearPending == "held" \in timeouts \/ queued("clear") > 0

\* C21: whenever eatEffect is non-null the timeout that clears it is pending
\* (or has run, its update waiting for the render); the timeout set by an
\* earlier food is cancelled before the effect of a later food is set, so the
\* only timeout ever pending is the one effectTimeoutRef refers to, and an
\* effect is never cleared by a stale timer: when an update clears it, its own
\* timeout has run and no timeout is left pending.
C21_EffectCleared ==
  [][/\ (eatEffect # NoEffect => clearPending)
     /\ (eatEffect' # NoEffect => clearPending')
     /\ timeouts \subseteq {"held"}
     /\ timeouts' \subseteq {"held"}
     /\ (eatingStep => (eatEffect' # NoEffect /\ timeouts' = {"held"}))
     /\ ((eatEffect # NoEffect /\ eatEffect' = NoEffect /\ ~sessionStep)
           => timeouts' = {})]_vars

(***************************************************************************)
(* C22 - the food is on the board                                          *)
(***************************************************************************)
\* C22: in every reachable state the food lies on an on-board cell with side 0
\* or 1, whether it was drawn at session start, respawned after being eaten,
\* moved to its mirror image by a wrap, respawned by a wrap, or put on (0,0)
\* of side 0 because no position was free.
C22_FoodOnBoard ==
  /\ isValidPosition(food)
  /\ food.side \in {0, 1}

\* the last free position of the board was the food and has just been eaten:
\* the snake lies on every cell of both sides and the food is the fallback
C22_Witness ==
  /\ Len(snake) = Len(cellSides)
  /\ coversBothFaces(snake)
  /\ eatEffect # NoEffect
  /\ food = [q |-> 0, r |-> 0, side |-> 0]

(***************************************************************************)
(* C23 - getValidHexCells                                                  *)
(***************************************************************************)
\* the stated board: |q| <= R, |r| <= R and |q + r| <= R
statedOnBoard(c) ==
  /\ -GRID_RADIUS <= c.q /\ c.q <= GRID_RADIUS
  /\ -GRID_RADIUS <= c.r /\ c.r <= GRID_RADIUS
  /\ -GRID_RADIUS <= c.q + c.r /\ c.q + c.r <= GRID_RADIUS

\* C23: a cell is in the result of getValidHexCells iff isValidPosition is true
\* of it, iff |q| <= R, |r| <= R and |q + r| <= R; such a cell is there exactly
\* once, and the result has 3 R^2 + 3 R + 1 cells.
C23_ExactlyTheBoard ==
  ret.op = "getValidHexCells" =>
    /\ ret.value.valid = statedOnBoard(call.coord)
    /\ ret.value.occurrences = (IF ret.value.valid THEN 1 ELSE 0)
    /\ ret.value.length = 3 * GRID_RADIUS * GRID_RADIUS + 3 * GRID_RADIUS + 1

\* a corner cell of the board, found once among the 721 cells
C23_Witness ==
  /\ ret.op = "getValidHexCells"
  /\ call.coord = [q |-> GRID_RADIUS, r |-> -GRID_RADIUS]
  /\ ret.value.valid
  /\ ret.value.occurrences = 1
  /\ ret.value.length = 721

====
